---- MODULE Spec2Model ----
(***************************************************************************)
(* Model of mpf/core/platform_batch_light_system.py: PlatformBatchLight    *)
(* (a light channel with a one-slot cache of its terminal brightness) and  *)
(* PlatformBatchLightSystem (the dirty list, the reschedule list and the   *)
(* asyncio tick loop that merges dirty lights into runs and dispatches     *)
(* batches to update_callback).                                            *)
(*                                                                         *)
(* Time is counted in milliseconds, so the source's                        *)
(* current_time + fade_ms / 1000 (seconds) is current_time + fade_ms here. *)
(* The tick loop is one asyncio task: its code between two awaits runs     *)
(* without interleaving.  An action of the loop therefore runs the code    *)
(* from one await to the next (the sleep of line 115, update_callback of   *)
(* lines 131 and 138); calls from other coroutines (set_fade, start) come *)
(* in between, and the clock moves between two passes of the loop.         *)
(***************************************************************************)
EXTENDS Integers, Sequences, FiniteSets, TLC

\* ---- bounds of the model ----
NumLights == 2
MaxTime == 1
MaxFades == 3
MaxBatchSize == 2
MaxStarts == 2

\* ---- values ----
None == -1
\* A time the clock does not reach.
Never == MaxTime + 1

\* A fade callback, as handed to set_fade: called with (max_fade_ms,
\* current_time) it returns (brightness, fade_ms, done).  It is represented by
\* the brightness and fade duration it reports and the time from which it
\* reports done (Never: a fade that does not complete).
\* The callbacks offered to set_fade: a finished change to brightness 0, a
\* fade that reports 1 ms steps and never completes, and a fade to brightness
\* 1 in steps of 2 ms that is complete from time 1 on.
Callbacks == {[b |-> 0, fade |-> 0, end |-> 0],
              [b |-> 1, fade |-> 1, end |-> Never],
              [b |-> 1, fade |-> 2, end |-> 1]}
NoCallback == [b |-> None, fade |-> None, end |-> None]

\* The tasks that start() creates, in the order of their creation.
TaskIds == 1..MaxStarts
\* The exceptions a failing update_callback raises.
SinkErrors == {"OSError", "ValueError"}
\* A task of the event loop: st is "absent" (not created), "new" (created,
\* not run yet), "sleep" (suspended in line 115), "sink" (suspended in
\* update_callback), "cancelling" (cancel() was called, the CancelledError is
\* not thrown in yet), "cancelled" or "failed"; at is where cancel() met it,
\* exc the exception that ended it, done what its done-callback did.
NoTask == [st |-> "absent", at |-> "", exc |-> "", done |-> "not called"]

\* ---- Shot (mpf/devices/shot.py) ----
\* The settings of one state of a shot profile: the show of the state ("" for
\* none), manual_advance (1, 0, or None when not configured) and start_step.
Settings(show, manual_advance, start_step) ==
    [show |-> show, manual_advance |-> manual_advance, start_step |-> start_step]
\* The state lists of the profiles: two states without shows, and three
\* states of which the first two have their own show.
StateLists == {<<Settings("", None, 1), Settings("", None, 2)>>,
               <<Settings("on", 1, 1), Settings("on", 1, 2), Settings("", None, 1)>>}
\* config['profile'].config: states, loop, the root show ("" for none) and
\* show_when_disabled.
Profiles == [states : StateLists, loop : BOOLEAN, show : {"", "flash"},
             show_when_disabled : BOOLEAN]
\* self.running_show = None
NoShow == [name |-> "", manual_advance |-> FALSE, current_step_index |-> 0]
\* config['delay_switch']: the names of the delay switches of the shot.  The
\* shot is hit by switches (config['switches']); config['sequence'] is empty.
DelaySwitches == {"s_left", "s_right"}

\* The numbers (hardware addresses) of the lights: consecutive addresses.
Numbers == [l \in 1..NumLights |-> l]
\* Two boards of three lights: consecutive addresses, and a gap before the
\* last light.
BatchLayouts == {<<1, 2, 3>>, <<1, 2, 4>>}
\* A board of two lights with consecutive addresses.
SinkBoard == <<1, 2>>

VARIABLES
    \* configuration, fixed by __init__
    max_batch_size, number,
    \* PlatformBatchLight fields, per light
    callback, last_brightness,
    \* PlatformBatchLightSystem fields and the clock
    dirty_lights, dirty_schedule, update_task, now,
    \* the tick loop task: position and locals of _send_updates
    pc, idx, sequential_lights, last_light, site,
    \* locals of _send_update_batch
    j, sequential_brightness_list, common_fade_ms, current_time, ret, held,
    \* history (not program state)
    fades, pendingFades, tickFades, markedInTick, evals, sent, sentBefore,
    doneSent, notBefore, lastSent,
    \* the tasks of the event loop created by start()
    tasks,
    \* Shot: its profile (configuration), self.enabled, the player variable
    \* shot_<name>, self.running_show, and what the last advance() did (history)
    profile, enabled, shot_state, running_show, lastAdvance,
    \* Shot: self.switch_handlers_active, self.active_delays, the timers pending
    \* in self.delay (by the switch of their name), and what the last hit() did
    \* (history)
    switch_handlers_active, active_delays, delays, lastHit

configVars == <<max_batch_size, number>>
lightVars == <<callback, last_brightness>>
loopVars == <<pc, idx, sequential_lights, last_light, site>>
batchVars == <<j, sequential_brightness_list, common_fade_ms, current_time, ret, held>>
tickHist == <<tickFades, markedInTick, evals, sent, sentBefore>>
fadeHist == <<pendingFades, doneSent, notBefore, lastSent>>
lifeVars == <<tasks>>
shotStateVars == <<profile, enabled, shot_state, running_show, lastAdvance>>
delayVars == <<switch_handlers_active, active_delays, delays, lastHit>>
shotVars == <<profile, enabled, shot_state, running_show, lastAdvance, delayVars>>
vars == <<configVars, lightVars, dirty_lights, dirty_schedule, update_task, now,
          loopVars, batchVars, fades, tickHist, fadeHist, lifeVars, shotVars>>

\* The lights created on the platform, one per number.
Lights == DOMAIN number

Min(a, b) == IF a < b THEN a ELSE b

NoEntry == [light |-> 0, brightness |-> None, fade |-> None, own |-> None, done |-> FALSE]

\* ---- configuration functions passed to __init__ ----
sort_function(light) == number[light]

\* Two lights are sequential when their numbers differ by one.
is_sequential_function(a, b) == number[b] - number[a] \in {-1, 1}

\* ---- PlatformBatchLight ----
\* Python truth value of self._last_brightness: None and 0 are both false.
Truthy(x) == x # None /\ x # 0

\* self._callback(max_fade_ms, current_time=current_time)
Call(cb, t) == [brightness |-> cb.b, fade_ms |-> cb.fade, done |-> t >= cb.end]

\* get_fade_and_brightness of a light whose _last_brightness is last and whose
\* _callback is cb: the returned triple, whether the callback was invoked, and
\* the value of _last_brightness afterwards.
get_fade_and_brightness(last, cb, t) ==
    IF Truthy(last)
    THEN [brightness |-> last, fade_ms |-> 0, done |-> TRUE,
          invoked |-> FALSE, last |-> last]
    ELSE LET r == Call(cb, t)
         IN  [brightness |-> r.brightness, fade_ms |-> r.fade_ms, done |-> r.done,
              invoked |-> TRUE,
              last |-> IF r.done THEN r.brightness ELSE last]

\* ---- PlatformBatchLightSystem ----
\* mark_dirty that leaves out a light already in the list.
mark_dirty_IfAbsent(light) ==
    IF \E k \in 1..Len(dirty_lights) : dirty_lights[k] = light
    THEN dirty_lights
    ELSE Append(dirty_lights, light)

mark_dirty(light) == Append(dirty_lights, light)

\* Lines 84 and 90 call the builtin sorted(), which builds a new list and
\* leaves its argument as it is; the new list is not bound to anything.
AfterSortedCall(list) == list

\* The while loop of lines 85-87: only the head of dirty_schedule is tested.
RECURSIVE PromoteDue(_, _, _)
PromoteDue(schedule, dirty, t) ==
    IF schedule # <<>> /\ schedule[1][1] <= t
    THEN PromoteDue(Tail(schedule), Append(dirty, schedule[1][2]), t)
    ELSE <<schedule, dirty>>

\* Line 128 with <= for <: one light too many joins the list.
FitsBatch_OffByOne(common, fade_ms, list) ==
    common = fade_ms /\ Len(list) <= max_batch_size

\* Line 128 without the comparison of the fade durations.
FitsBatch_IgnoringFade(common, fade_ms, list) ==
    Len(list) < max_batch_size

\* Line 128: the light joins the list being built.
FitsBatch(common, fade_ms, list) ==
    common = fade_ms /\ Len(list) < max_batch_size

\* The task is suspended in an await (or was created and has not run yet).
Suspended == pc \in {"new", "sleep", "sink"}
\* The task has ended with the exception of update_callback.
Ended == pc = "failed"
CallerMayRun == update_task = None \/ Suspended \/ Ended

\* __init__ of the lights and of the light system, after the configuration.
InitRest ==
    /\ callback = [l \in Lights |-> NoCallback]
    /\ last_brightness = [l \in Lights |-> None]
    /\ dirty_lights = <<>>
    /\ dirty_schedule = <<>>
    /\ update_task = None
    /\ now = 0
    /\ pc = "none"
    /\ idx = 0
    /\ sequential_lights = <<>>
    /\ last_light = None
    /\ site = 0
    /\ j = 0
    /\ sequential_brightness_list = <<>>
    /\ common_fade_ms = None
    /\ current_time = None
    /\ ret = 0
    /\ held = NoEntry
    /\ fades = 0
    /\ pendingFades = [l \in Lights |-> 0]
    /\ tickFades = [l \in Lights |-> 0]
    /\ markedInTick = {}
    /\ evals = <<>>
    /\ sent = <<>>
    /\ sentBefore = 0
    /\ doneSent = [l \in Lights |-> 0]
    /\ notBefore = [l \in Lights |-> 0]
    /\ lastSent = [l \in Lights |-> None]
    /\ tasks = [t \in TaskIds |-> NoTask]
    /\ enabled = FALSE
    /\ shot_state = 0
    /\ running_show = NoShow
    /\ lastAdvance = "none"
    /\ switch_handlers_active = FALSE
    /\ active_delays = {}
    /\ delays = {}
    /\ lastHit = "none"

Init ==
    /\ max_batch_size \in 0..MaxBatchSize
    /\ number = Numbers
    /\ profile = CHOOSE p \in Profiles : TRUE
    /\ InitRest

\* ---- calls from outside the loop ----
\* PlatformBatchLight.set_fade
SetFade(light, cb) ==
    /\ CallerMayRun
    /\ fades < MaxFades
    /\ fades' = fades + 1
    /\ dirty_lights' = mark_dirty(light)
    /\ callback' = [callback EXCEPT ![light] = cb]
    /\ last_brightness' = [last_brightness EXCEPT ![light] = None]
    /\ pendingFades' = [pendingFades EXCEPT ![light] = Min(2, @ + 1)]
    /\ doneSent' = [doneSent EXCEPT ![light] = 0]
    /\ notBefore' = [notBefore EXCEPT ![light] = 0]
    /\ markedInTick' = IF pc = "sink" THEN markedInTick \cup {light} ELSE markedInTick
    /\ UNCHANGED <<configVars, dirty_schedule, update_task, now, loopVars, batchVars,
                   tickFades, evals, sent, sentBefore, lastSent, lifeVars, shotVars>>

\* PlatformBatchLightSystem.start, called while no loop is alive.
Start ==
    /\ update_task = None
    /\ update_task' = 1
    /\ pc' = "new"
    /\ UNCHANGED <<configVars, lightVars, dirty_lights, dirty_schedule, now, fades,
                   idx, sequential_lights, last_light, site, batchVars, tickHist, fadeHist,
                   lifeVars, shotVars>>

\* The clock of the event loop, read by clock.get_time().  A dispatch is short
\* against a millisecond: the clock moves before the loop runs and while it
\* sleeps (line 115).
AdvanceTime ==
    /\ pc \in {"none", "new", "sleep"}
    /\ now < MaxTime
    /\ now' = now + 1
    /\ UNCHANGED <<configVars, lightVars, dirty_lights, dirty_schedule, update_task,
                   loopVars, batchVars, fades, tickHist, fadeHist, lifeVars, shotVars>>

\* ---- the tick loop, _send_updates ----
\* The state the task works on while it runs: the fields it writes, its locals
\* and the history.  callback, the configuration and the clock are only read.
Frame ==
    [pc |-> pc, idx |-> idx, sequential_lights |-> sequential_lights,
     last_light |-> last_light, site |-> site, j |-> j,
     sequential_brightness_list |-> sequential_brightness_list,
     common_fade_ms |-> common_fade_ms, current_time |-> current_time,
     ret |-> ret, held |-> held,
     dirty_lights |-> dirty_lights, dirty_schedule |-> dirty_schedule,
     last_brightness |-> last_brightness,
     tickFades |-> tickFades, markedInTick |-> markedInTick,
     evals |-> evals, sent |-> sent, sentBefore |-> sentBefore,
     pendingFades |-> pendingFades, doneSent |-> doneSent, notBefore |-> notBefore,
     lastSent |-> lastSent]

\* The task stops at an await in state f.
Install(f) ==
    /\ pc' = f.pc
    /\ idx' = f.idx
    /\ sequential_lights' = f.sequential_lights
    /\ last_light' = f.last_light
    /\ site' = f.site
    /\ j' = f.j
    /\ sequential_brightness_list' = f.sequential_brightness_list
    /\ common_fade_ms' = f.common_fade_ms
    /\ current_time' = f.current_time
    /\ ret' = f.ret
    /\ held' = f.held
    /\ dirty_lights' = f.dirty_lights
    /\ dirty_schedule' = f.dirty_schedule
    /\ last_brightness' = f.last_brightness
    /\ tickFades' = f.tickFades
    /\ markedInTick' = f.markedInTick
    /\ evals' = f.evals
    /\ sent' = f.sent
    /\ sentBefore' = f.sentBefore
    /\ pendingFades' = f.pendingFades
    /\ doneSent' = f.doneSent
    /\ notBefore' = f.notBefore
    /\ lastSent' = f.lastSent
    /\ UNCHANGED <<configVars, callback, update_task, now, fades, lifeVars, shotVars>>

\* Lines 82-93: top of the while loop, promotion of the due entries.
StartTick(f) ==
    LET p == PromoteDue(AfterSortedCall(f.dirty_schedule), f.dirty_lights, now)
    IN  [f EXCEPT !.dirty_schedule = p[1],
                  !.dirty_lights = AfterSortedCall(p[2]),
                  !.pc = "scan", !.idx = 1, !.sequential_lights = <<>>,
                  !.last_light = None, !.site = 0,
                  !.tickFades = f.pendingFades, !.markedInTick = {},
                  !.evals = <<>>, !.sent = <<>>, !.sentBefore = 0]

\* Entry of _send_update_batch(sequential_lights), lines 118-120.
EnterBatch(f, from) ==
    [f EXCEPT !.pc = "batch", !.site = from, !.j = 1,
              !.sequential_brightness_list = <<>>, !.common_fade_ms = None,
              !.current_time = now, !.ret = 0, !.held = NoEntry,
              !.sentBefore = Len(f.sent)]

\* Lines 113-115: the dirty list is cleared and the loop sleeps.
ClearAndSleep(f) ==
    [f EXCEPT !.dirty_lights = <<>>, !.pc = "sleep",
              !.idx = 0, !.sequential_lights = <<>>, !.last_light = None, !.site = 0,
              !.tickFades = [l \in Lights |-> 0], !.markedInTick = {},
              !.evals = <<>>, !.sent = <<>>, !.sentBefore = 0]

\* Lines 94-111: one iteration of the for loop over dirty_lights, or the code
\* after the loop.
ScanStep(f) ==
    IF f.idx > Len(f.dirty_lights)
    THEN IF f.sequential_lights # <<>>
         THEN EnterBatch(f, 111)
         ELSE ClearAndSleep(f)
    ELSE LET light == f.dirty_lights[f.idx]
         IN  IF light = f.last_light
             THEN [f EXCEPT !.idx = @ + 1]
             ELSE IF f.sequential_lights = <<>>
             THEN [f EXCEPT !.last_light = light, !.sequential_lights = <<light>>,
                            !.idx = @ + 1]
             ELSE IF is_sequential_function(
                        f.sequential_lights[Len(f.sequential_lights)], light)
             THEN [f EXCEPT !.last_light = light,
                            !.sequential_lights = Append(@, light), !.idx = @ + 1]
             ELSE EnterBatch([f EXCEPT !.last_light = light], 106)

\* The brightness of the last entry the sink has received for each light,
\* after it received list.
RECURSIVE LastOf(_, _)
LastOf(list, last) ==
    IF list = <<>>
    THEN last
    ELSE LastOf(Tail(list), [last EXCEPT ![list[1].light] = list[1].brightness])

\* update_callback(sequential_brightness_list) is called and awaited.
Dispatch(f, from) ==
    [f EXCEPT !.pc = "sink", !.ret = from,
              !.sent = Append(@, f.sequential_brightness_list),
              !.doneSent = [l \in Lights |->
                  IF \E k \in 1..Len(f.sequential_brightness_list) :
                        /\ f.sequential_brightness_list[k].light = l
                        /\ f.sequential_brightness_list[k].done
                  THEN Min(2, f.doneSent[l] + 1) ELSE f.doneSent[l]],
              !.lastSent = LastOf(f.sequential_brightness_list, @)]

\* _send_update_batch returns to its caller, line 106 or line 111.
Return(f) ==
    LET g == [f EXCEPT !.j = 0, !.sequential_brightness_list = <<>>,
                       !.common_fade_ms = None, !.current_time = None,
                       !.ret = 0, !.held = NoEntry, !.sentBefore = 0]
    IN  IF f.site = 106
        THEN \* line 108: this light is a new sequence
             [g EXCEPT !.sequential_lights = <<f.dirty_lights[f.idx]>>,
                       !.idx = @ + 1, !.pc = "scan", !.site = 0]
        ELSE ClearAndSleep(g)

\* Lines 121-138: one iteration of the for loop of _send_update_batch, or the
\* code after the loop.
BatchStep(f) ==
    IF f.j > Len(f.sequential_lights)
    THEN IF f.sequential_brightness_list # <<>>
         THEN Dispatch(f, 138)
         ELSE Return(f)
    ELSE LET light == f.sequential_lights[f.j]
             r == get_fade_and_brightness(f.last_brightness[light], callback[light],
                                          f.current_time)
             common == IF f.common_fade_ms = None THEN r.fade_ms ELSE f.common_fade_ms
             entry == [light |-> light, brightness |-> r.brightness, fade |-> common,
                       own |-> r.fade_ms, done |-> r.done]
             g == [f EXCEPT
                     !.last_brightness[light] = r.last,
                     !.dirty_schedule =
                         IF ~r.done
                         THEN Append(@, <<f.current_time + r.fade_ms, light>>)
                         ELSE @,
                     !.common_fade_ms = common,
                     !.evals = Append(@, [light |-> light, time |-> f.current_time,
                                          brightness |-> r.brightness,
                                          fade_ms |-> r.fade_ms, done |-> r.done,
                                          invoked |-> r.invoked,
                                          cached |-> f.last_brightness[light],
                                          cb |-> callback[light],
                                          notBefore |-> f.notBefore[light]]),
                     !.pendingFades[light] = 0,
                     !.notBefore[light] =
                         IF r.done THEN 0 ELSE f.current_time + r.fade_ms]
         IN  IF FitsBatch(common, r.fade_ms, f.sequential_brightness_list)
             THEN [g EXCEPT !.sequential_brightness_list = Append(@, entry),
                            !.j = @ + 1]
             ELSE [Dispatch(g, 131) EXCEPT !.held = [entry EXCEPT !.fade = r.fade_ms]]

\* Lines 132-135 or the return of _send_update_batch: the code after the await
\* of update_callback.
Resume(f) ==
    IF f.ret = 131
    THEN \* start new list
         [f EXCEPT !.pc = "batch", !.current_time = now,
                   !.common_fade_ms = f.held.own,
                   !.sequential_brightness_list = <<f.held>>,
                   !.held = NoEntry, !.ret = 0, !.j = @ + 1]
    ELSE Return(f)

\* The task runs until its next await.
RECURSIVE Run(_)
Run(f) ==
    IF f.pc \in {"sink", "sleep"}
    THEN f
    ELSE CHOOSE r \in {Run(g) : g \in {IF f.pc = "scan" THEN ScanStep(f)
                                                          ELSE BatchStep(f)}} : TRUE

\* The task runs for the first time or the sleep of line 115 ends: one pass of
\* the while loop up to its first await.
Tick ==
    /\ pc \in {"new", "sleep"}
    /\ \E f \in {Run(StartTick(Frame))} : Install(f)

\* update_callback returns: the task goes on up to its next await.
SinkDone ==
    /\ pc = "sink"
    /\ \E f \in {Run(Resume(Frame))} : Install(f)

Next ==
    \/ \E light \in Lights, cb \in Callbacks : SetFade(light, cb)
    \/ Start
    \/ AdvanceTime
    \/ Tick
    \/ SinkDone

Spec == Init /\ [][Next]_vars

\* ---- one board, no clock: the batches of a tick ----
\* A platform with the lights of one of BatchLayouts; max_batch_size goes up
\* to the number of lights.  The clock stays at 0: every light is evaluated at the
\* time it was marked.
BatchInit ==
    /\ number \in BatchLayouts
    /\ max_batch_size \in 0..Len(number)
    /\ profile = CHOOSE p \in Profiles : TRUE
    /\ InitRest

BatchNext ==
    \/ \E light \in Lights, cb \in Callbacks : SetFade(light, cb)
    \/ Start
    \/ Tick
    \/ SinkDone

BatchSpec == BatchInit /\ [][BatchNext]_vars

\* ---- a write sink that fails ----
\* The await of line 131 or 138 raises, with the exception caught and the
\* same list awaited again.
AfterSinkError_Retried(f) == Dispatch(f, f.ret)

\* The await of line 131 or 138 raises: _send_update_batch and _send_updates
\* have no try statement, so the exception ends the task where it stands.
AfterSinkError(f) == [f EXCEPT !.pc = "failed"]

\* update_callback raises.
SinkFails ==
    /\ pc = "sink"
    /\ \E f \in {AfterSinkError(Frame)} : Install(f)

\* start(), lines 65-66, called after the loop has ended: a new task, with
\* locals of its own, is bound to update_task.  The lights and both lists
\* stay as the ended task left them.
StartAgain ==
    /\ Ended
    /\ update_task < MaxStarts
    /\ update_task' = update_task + 1
    /\ pc' = "new"
    /\ idx' = 0
    /\ sequential_lights' = <<>>
    /\ last_light' = None
    /\ site' = 0
    /\ j' = 0
    /\ sequential_brightness_list' = <<>>
    /\ common_fade_ms' = None
    /\ current_time' = None
    /\ ret' = 0
    /\ held' = NoEntry
    /\ tickFades' = [l \in Lights |-> 0]
    /\ markedInTick' = {}
    /\ evals' = <<>>
    /\ sent' = <<>>
    /\ sentBefore' = 0
    /\ UNCHANGED <<configVars, lightVars, dirty_lights, dirty_schedule, now, fades,
                   fadeHist, lifeVars, shotVars>>

\* A platform with the two lights of SinkBoard.
FailInit ==
    /\ number = SinkBoard
    /\ max_batch_size \in 0..Len(number)
    /\ profile = CHOOSE p \in Profiles : TRUE
    /\ InitRest

FailNext ==
    \/ \E light \in Lights, cb \in Callbacks : SetFade(light, cb)
    \/ Start
    \/ Tick
    \/ SinkDone
    \/ SinkFails
    \/ StartAgain

FailSpec == FailInit /\ [][FailNext]_vars

\* ---- start, stop and the end of the tick loop ----
\* The light system's own fields and the lights, left alone by the calls below.
schedulerVars == <<configVars, lightVars, dirty_lights, dirty_schedule, now,
                   loopVars, batchVars, fades, tickHist, fadeHist, shotVars>>

\* The task runs _send_updates and has not been asked to stop.
Alive(t) == tasks[t].st \in {"new", "sleep", "sink"}

\* task.cancel(): a request on a task that has not ended, nothing otherwise.
cancel(t) ==
    IF Alive(t)
    THEN [tasks EXCEPT ![t].st = "cancelling", ![t].at = tasks[t].st]
    ELSE tasks

\* start(), lines 65-66: a new task is created and bound to update_task,
\* whatever update_task was.
LifeStart ==
    /\ \E t \in TaskIds :
          /\ tasks[t].st = "absent"
          /\ \A u \in TaskIds : u < t => tasks[u].st # "absent"
          /\ tasks' = [tasks EXCEPT ![t].st = "new"]
          /\ update_task' = t
    /\ UNCHANGED schedulerVars

\* stop(), lines 70-72.
LifeStop ==
    /\ IF update_task # None
       THEN /\ tasks' = cancel(update_task)
            /\ update_task' = None
       ELSE UNCHANGED <<tasks, update_task>>
    /\ UNCHANGED schedulerVars

\* The event loop runs a task up to its next await: the sleep of line 115 or
\* update_callback (lines 131, 138).
TaskRuns(t, await) ==
    /\ Alive(t)
    /\ tasks' = [tasks EXCEPT ![t].st = await]
    /\ UNCHANGED <<schedulerVars, update_task>>

\* update_callback raises e: the exception leaves _send_update_batch and
\* _send_updates, which catch nothing, and ends the task.
SinkRaises(t, e) ==
    /\ tasks[t].st = "sink"
    /\ tasks' = [tasks EXCEPT ![t].st = "failed", ![t].exc = e]
    /\ UNCHANGED <<schedulerVars, update_task>>

\* The event loop throws CancelledError into the task at its await.
CancelLands(t) ==
    /\ tasks[t].st = "cancelling"
    /\ tasks' = [tasks EXCEPT ![t].st = "cancelled", ![t].exc = "CancelledError"]
    /\ UNCHANGED <<schedulerVars, update_task>>

\* _done with except Exception: every exception is swallowed.
_done_SwallowsAll(raised) == "returned"

\* _done(future), lines 75-79: future.result() raises the exception that ended
\* the task; CancelledError is swallowed, any other exception leaves _done.
_done(raised) == IF raised = "CancelledError" THEN "returned" ELSE raised

\* The event loop calls the done-callback of a task that has ended.
DoneCalled(t) ==
    /\ tasks[t].st \in {"cancelled", "failed"}
    /\ tasks[t].done = "not called"
    /\ tasks' = [tasks EXCEPT ![t].done = _done(tasks[t].exc)]
    /\ UNCHANGED <<schedulerVars, update_task>>

LifeNext ==
    \/ LifeStart
    \/ LifeStop
    \/ \E t \in TaskIds, await \in {"sleep", "sink"} : TaskRuns(t, await)
    \/ \E t \in TaskIds, e \in SinkErrors : SinkRaises(t, e)
    \/ \E t \in TaskIds : CancelLands(t)
    \/ \E t \in TaskIds : DoneCalled(t)

LifeSpec == Init /\ [][LifeNext]_vars

\* ---- Shot: advance, jump, reset, enable, disable ----
\* Everything but the shot.
lightSystemVars == <<configVars, lightVars, dirty_lights, dirty_schedule, update_task,
                     now, loopVars, batchVars, fades, tickHist, fadeHist, lifeVars>>

\* A shot in a mode, not enabled yet, its player variable at 0, with any of
\* the profiles.
ShotInit ==
    /\ max_batch_size = MaxBatchSize
    /\ number = Numbers
    /\ profile \in Profiles
    /\ InitRest

\* bool(x) of a setting that is 1, 0 or None.
Bool(x) == x = 1

\* _play_show(settings, start_step): the show of the state or else the root
\* show of the profile is played from start_step (or from the state's
\* start_step when start_step is 0); the result becomes running_show.
_play_show(settings, start_step) ==
    [name |-> IF settings.show # "" THEN settings.show ELSE profile.show,
     manual_advance |-> IF settings.manual_advance = None
                        THEN settings.show = ""
                        ELSE Bool(settings.manual_advance),
     current_step_index |-> IF start_step # 0 THEN start_step ELSE settings.start_step]

\* running_show.advance()
ShowAdvanced(show) == [show EXCEPT !.current_step_index = @ + 1]

\* _update_show(), lines 192-246, for the shot in profile state `state`: the
\* new value of running_show.
_update_show(is_enabled, state, show) ==
    LET state_settings == profile.states[state + 1]
    IN  IF ~is_enabled /\ ~profile.show_when_disabled
        THEN NoShow
        ELSE IF state_settings.show # ""
        THEN IF show # NoShow /\ show.name = state_settings.show
                /\ show.manual_advance = Bool(state_settings.manual_advance)
                /\ (\/ ~show.manual_advance
                    \/ show.current_step_index = state_settings.start_step
                    \/ show.current_step_index + 1 = state_settings.start_step)
             THEN IF show.manual_advance
                     /\ show.current_step_index # state_settings.start_step
                  THEN ShowAdvanced(show)
                  ELSE show
             ELSE _play_show(state_settings, 0)
        ELSE IF profile.show # ""
        THEN IF show # NoShow /\ show.name = profile.show
                /\ show.current_step_index = state_settings.start_step - 1
             THEN ShowAdvanced(show)
             ELSE _play_show(state_settings, state + 1)
        ELSE show

\* Line 134 without the force argument.
MayAdvance_IgnoresForce(force) == enabled

\* Line 134: advance and jump go on when the shot is enabled or forced.
MayAdvance(force) == enabled \/ force

\* advance(force), lines 125-154.
advance(force) ==
    /\ IF ~MayAdvance(force)
       THEN /\ lastAdvance' = "ignored"
            /\ UNCHANGED <<shot_state, running_show>>
       ELSE IF shot_state + 1 >= Len(profile.states)
       THEN IF profile.loop
            THEN /\ shot_state' = 0
                 /\ running_show' = _update_show(enabled, 0, running_show)
                 /\ lastAdvance' = "wrap"
            ELSE /\ lastAdvance' = "stay"
                 /\ UNCHANGED <<shot_state, running_show>>
       ELSE /\ shot_state' = shot_state + 1
            /\ running_show' = _update_show(enabled, shot_state + 1, running_show)
            /\ lastAdvance' = "step"
    /\ UNCHANGED <<profile, enabled, lightSystemVars>>

\* advance(force) called from outside the shot.
Advance(force) == advance(force) /\ UNCHANGED delayVars

\* jump(state, force), lines 510-538, to a state of the profile.
Jump(state, force) ==
    /\ IF ~MayAdvance(force) \/ state = shot_state
       THEN UNCHANGED <<shot_state, running_show>>
       ELSE /\ shot_state' = state
            /\ running_show' = _update_show(enabled, state, running_show)
    /\ lastAdvance' = "none"
    /\ UNCHANGED <<profile, enabled, lightSystemVars, delayVars>>

\* reset(), lines 541-547: jump(state=0) with the default force=True (the
\* sequences it resets first are no part of the profile state).
Reset == Jump(0, TRUE)

\* _register_switch_handlers(), lines 80-99.
_register_switch_handlers == switch_handlers_active' = TRUE

\* self.delay.clear(), line 106: no timer of the shot's DelayManager is left
\* pending.
DelayCleared(pending) == {}

\* _remove_switch_handlers(), lines 101-122 (active_sequences stays empty
\* without config['sequence']): active_delays is not touched.
_remove_switch_handlers ==
    IF ~switch_handlers_active
    THEN UNCHANGED <<switch_handlers_active, delays>>
    ELSE /\ delays' = DelayCleared(delays)
         /\ switch_handlers_active' = FALSE

\* _enable(), lines 549-552.
Enable ==
    /\ ~enabled
    /\ enabled' = TRUE
    /\ _register_switch_handlers
    /\ running_show' = _update_show(TRUE, shot_state, running_show)
    /\ lastAdvance' = "none"
    /\ UNCHANGED <<profile, shot_state, lightSystemVars, active_delays, delays, lastHit>>

\* _disable(), lines 554-556: the show is left as it is.
Disable ==
    /\ enabled
    /\ enabled' = FALSE
    /\ _remove_switch_handlers
    /\ lastAdvance' = "none"
    /\ UNCHANGED <<profile, shot_state, running_show, lightSystemVars, active_delays,
                   lastHit>>

\* device_removed_from_mode(mode), lines 277-286: the mode of the shot ends;
\* the shot forgets that it was enabled, its handlers and its show.
RemovedFromMode ==
    /\ enabled' = FALSE
    /\ _remove_switch_handlers
    /\ running_show' = NoShow
    /\ lastAdvance' = "none"
    /\ UNCHANGED <<profile, shot_state, lightSystemVars, active_delays, lastHit>>

\* A delay switch is hit while its handler is registered: _delay_switch_hit,
\* lines 482-491.  delay.reset starts the timer of the switch anew.
DelaySwitchHit(switch_name) ==
    /\ switch_handlers_active
    /\ delays' = delays \cup {switch_name}
    /\ active_delays' = active_delays \cup {switch_name}
    /\ UNCHANGED <<profile, enabled, shot_state, running_show, lastAdvance,
                   switch_handlers_active, lastHit, lightSystemVars>>

\* The timer of a delay switch runs out: _release_delay(switch), lines 493-494.
\* The switch of a pending timer is a member of active_delays.
ReleaseDelay(switch) ==
    /\ switch \in delays
    /\ delays' = delays \ {switch}
    /\ active_delays' = active_delays \ {switch}
    /\ UNCHANGED <<profile, enabled, shot_state, running_show, lastAdvance,
                   switch_handlers_active, lastHit, lightSystemVars>>

\* hit(), lines 289-392, called by a switch of the shot or as the handler of
\* a control event, with advance_on_hit (the default).
Hit ==
    /\ IF ~enabled
       THEN /\ lastHit' = "not enabled"
            /\ UNCHANGED <<shotStateVars, lightSystemVars>>
       ELSE IF active_delays # {}
       THEN /\ lastHit' = "held off"
            /\ UNCHANGED <<shotStateVars, lightSystemVars>>
       ELSE /\ lastHit' = "hit"
            /\ advance(FALSE)
    /\ UNCHANGED <<switch_handlers_active, active_delays, delays>>

ShotNext ==
    \/ \E force \in BOOLEAN : Advance(force)
    \/ \E state \in 0..Len(profile.states) - 1, force \in BOOLEAN : Jump(state, force)
    \/ Reset
    \/ Enable
    \/ Disable
    \/ RemovedFromMode
    \/ \E switch_name \in DelaySwitches : DelaySwitchHit(switch_name)
    \/ \E switch \in DelaySwitches : ReleaseDelay(switch)
    \/ Hit

ShotSpec == ShotInit /\ [][ShotNext]_vars

\* The event loop runs a task that is ready: the sleep of line 115 ends and
\* update_callback returns.
LoopStep == Tick \/ SinkDone
FairSpec == Spec /\ WF_vars(LoopStep)

\* ---- observations on the history of the current tick ----
SeqRange(q) == {q[k] : k \in 1..Len(q)}
CountEvals(light) == Cardinality({k \in 1..Len(evals) : evals[k].light = light})
CountSent(light) ==
    Cardinality({p \in (1..Len(sent)) \X (1..NumLights + MaxFades) :
                    p[2] <= Len(sent[p[1]]) /\ sent[p[1]][p[2]].light = light})
\* The loop is suspended in the dispatch of the last run of the tick (line 111).
LastDispatch == pc = "sink" /\ site = 111 /\ ret = 138

\* C1: while the scheduler is running, every set_fade of a channel is followed
\* by an evaluation of that channel.
C1_NoLostUpdates ==
    \A light \in 1..NumLights :
        (pendingFades[light] > 0 /\ update_task # None) ~> (pendingFades[light] = 0)

\* C2: the promotion at the start of a tick removes every entry of the
\* reschedule queue whose due time has come and adds its channel to the dirty
\* list, whatever the order of the entries.
C2_PromotesEveryDueEntry ==
    [][Tick => /\ \A k \in 1..Len(dirty_schedule') : dirty_schedule'[k][1] > now
               /\ \A k \in 1..Len(dirty_schedule) :
                      dirty_schedule[k][1] <= now
                          => dirty_schedule[k][2] \in SeqRange(dirty_lights')]_vars

\* C3: an evaluation that reports done = false at time t with fade f leaves the
\* entry (t + f, channel) in the reschedule queue, and without a new set_fade
\* the channel is not evaluated again before that due time.
C3_RescheduleOnIncompleteFade ==
    \A k \in 1..Len(evals) :
        /\ ~evals[k].done
              => <<evals[k].time + evals[k].fade_ms, evals[k].light>> \in SeqRange(dirty_schedule)
        /\ evals[k].time >= evals[k].notBefore

\* C4: a channel on which set_fade was called twice before a tick is evaluated
\* exactly once in that tick, with the latest callback.
C4_OnePendingFadePerChannel ==
    \A light \in Lights :
        (tickFades[light] >= 2 /\ light \notin markedInTick)
            => /\ CountEvals(light) <= 1
               /\ LastDispatch => CountEvals(light) = 1
               /\ \A k \in 1..Len(evals) :
                      (evals[k].light = light /\ evals[k].invoked)
                          => evals[k].cb = callback[light]

\* C5: between two set_fade calls on a channel the write sink receives the
\* completed (done = true) result of that channel at most once.
C5_CompletedResultSentOnce ==
    \A light \in Lights : doneSent[light] <= 1

\* C6: every list passed to update_callback has at most max_batch_size entries.
C6_BatchSizeBound ==
    \A i \in 1..Len(sent) : Len(sent[i]) <= max_batch_size

\* C7: in every list passed to update_callback all entries carry the same fade
\* duration, which is the fade duration each entry's own evaluation returned.
C7_DurationHomogeneity ==
    \A i \in 1..Len(sent) : \A k \in 1..Len(sent[i]) :
        /\ sent[i][k].fade = sent[i][1].fade
        /\ sent[i][k].fade = sent[i][k].own

\* C7 witness: a list of two entries has been dispatched, and the next light
\* of the run, which reported another fade duration, was kept out of it.
C7_Witness ==
    /\ pc = "sink" /\ ret = 131
    /\ Len(sent[Len(sent)]) = 2
    /\ held.own # common_fade_ms

\* C8: in every list passed to update_callback the channels are in strictly
\* increasing sort_function order, none occurs twice, and consecutive entries
\* are sequential.
C8_AdjacencyContainment ==
    \A i \in 1..Len(sent) :
        /\ \A k \in 1..(Len(sent[i]) - 1) :
              /\ sort_function(sent[i][k].light) < sort_function(sent[i][k + 1].light)
              /\ is_sequential_function(sent[i][k].light, sent[i][k + 1].light)
        /\ \A k, m \in 1..Len(sent[i]) : k # m => sent[i][k].light # sent[i][m].light

\* C9: an evaluation of a channel whose terminal brightness b is cached (any
\* b, 0 included) returns (b, 0, true) without invoking the callback.
C9_TerminalCaching ==
    \A k \in 1..Len(evals) :
        evals[k].cached # None
            => /\ ~evals[k].invoked
               /\ evals[k].brightness = evals[k].cached
               /\ evals[k].fade_ms = 0
               /\ evals[k].done

\* C10: in one tick a channel that was marked dirty or promoted before the
\* tick is evaluated at most once and is in at most one dispatched entry.
C10_PerTickDeduplication ==
    \A light \in Lights :
        light \notin markedInTick
            => CountEvals(light) <= 1 /\ CountSent(light) <= 1

\* The lights that have an entry in the reschedule list.
Scheduled == {dirty_schedule[k][2] : k \in 1..Len(dirty_schedule)}

\* C11: between two ticks no light is in dirty_lights and in dirty_schedule at
\* the same time, also after a set_fade on a light that waits in
\* dirty_schedule.
C11_ExclusiveMembership ==
    pc \in {"none", "new", "sleep"} => SeqRange(dirty_lights) \cap Scheduled = {}

\* C12: the lights evaluated in one tick, those marked during the tick left
\* aside, are evaluated in non-decreasing sort_function order.
C12_SortedProcessing ==
    \A k, m \in 1..Len(evals) :
        (k < m /\ evals[k].light \notin markedInTick /\ evals[m].light \notin markedInTick)
            => sort_function(evals[k].light) <= sort_function(evals[m].light)

\* The lights of list i passed to update_callback in this tick.
SentLights(i) == [k \in 1..Len(sent[i]) |-> sent[i][k].light]

\* The lights of S in sort_function order.
RECURSIVE SortedSeq(_)
SortedSeq(S) ==
    IF S = {}
    THEN <<>>
    ELSE LET m == CHOOSE x \in S : \A y \in S : sort_function(x) <= sort_function(y)
         IN  <<m>> \o SortedSeq(S \ {m})

\* The maximal runs of a list under is_sequential_function, in list order.
RECURSIVE RunsOf(_)
RunsOf(list) ==
    IF list = <<>>
    THEN <<>>
    ELSE LET rest == RunsOf(Tail(list))
         IN  IF rest # <<>> /\ is_sequential_function(list[1], rest[1][1])
             THEN <<(<<list[1]>> \o rest[1])>> \o Tail(rest)
             ELSE <<(<<list[1]>>)>> \o rest

\* All evaluations of the tick so far reported the same fade duration.
SameFadeInTick == \A k, m \in 1..Len(evals) : evals[k].fade_ms = evals[m].fade_ms

\* C13: when the lights of a tick were all marked before it, report the same
\* fade duration and are at most max_batch_size, the lists passed to
\* update_callback in the tick are the maximal runs of the sorted set of these
\* lights, in sorted order, whatever the order of the marks.
C13_MaximalAdjacentRuns ==
    (/\ LastDispatch
     /\ markedInTick = {}
     /\ SameFadeInTick
     /\ Cardinality(SeqRange(dirty_lights)) <= max_batch_size)
        => [i \in 1..Len(sent) |-> SentLights(i)] = RunsOf(SortedSeq(SeqRange(dirty_lights)))

\* The lists passed to update_callback by the running call of
\* _send_update_batch.
CallBatches == SubSeq(sent, sentBefore + 1, Len(sent))

RECURSIVE Concat(_)
Concat(lists) == IF lists = <<>> THEN <<>> ELSE lists[1] \o Concat(Tail(lists))

\* The running call of _send_update_batch is in its last await (line 138).
CallEnds == pc = "sink" /\ ret = 138

\* Every light of the run handed to the running call reported the same fade
\* duration.
SameFadeInCall ==
    \A i, k \in 1..Len(Concat(CallBatches)) :
        Concat(CallBatches)[i].own = Concat(CallBatches)[k].own

\* C14: a run whose lights report the same fade duration is passed to
\* update_callback in run order with no light dropped or repeated, and for
\* max_batch_size >= 1 in ceil(n / max_batch_size) lists, each of
\* max_batch_size entries except the last, which has 1..max_batch_size.
C14_BatchSplitting ==
    (CallEnds /\ SameFadeInCall)
        => /\ [k \in 1..Len(Concat(CallBatches)) |-> Concat(CallBatches)[k].light]
                  = sequential_lights
           /\ max_batch_size >= 1
                 => /\ Len(CallBatches) =
                          (Len(sequential_lights) + max_batch_size - 1) \div max_batch_size
                    /\ \A i \in 1..Len(CallBatches) :
                          IF i < Len(CallBatches)
                          THEN Len(CallBatches[i]) = max_batch_size
                          ELSE Len(CallBatches[i]) \in 1..max_batch_size

\* C14 witness: three different lights in one run with max_batch_size = 2; the
\* second list of the call is at the sink.
C14_Witness ==
    /\ CallEnds /\ SameFadeInCall
    /\ max_batch_size = 2
    /\ Len(sequential_lights) = 3
    /\ Cardinality(SeqRange(sequential_lights)) = 3
    /\ Len(CallBatches) = 2

\* C15: update_callback is never called with an empty list.
C15_NonEmptyBatches ==
    \A i \in 1..Len(sent) : sent[i] # <<>>

\* C18: a scheduler whose loop has run its first tick has max_batch_size >= 1
\* (a max_batch_size <= 0 is refused by the constructor).
C18_FailFastConfiguration ==
    pc \notin {"none", "new"} => max_batch_size >= 1

\* C19: set_fade(cb) on a light stores cb, clears the light's cached
\* brightness and appends the light once to dirty_lights; no callback is
\* invoked, update_callback is not called, and dirty_schedule, the other lights
\* and the loop are unchanged.
C19_SetFadeFrame ==
    [][\A light \in Lights, cb \in Callbacks :
          SetFade(light, cb)
              => /\ callback' = [callback EXCEPT ![light] = cb]
                 /\ last_brightness' = [last_brightness EXCEPT ![light] = None]
                 /\ Len(dirty_lights') = Len(dirty_lights) + 1
                 /\ SubSeq(dirty_lights', 1, Len(dirty_lights)) = dirty_lights
                 /\ dirty_lights'[Len(dirty_lights')] = light
                 /\ evals' = evals
                 /\ sent' = sent
                 /\ dirty_schedule' = dirty_schedule
                 /\ UNCHANGED <<configVars, update_task, now, loopVars, batchVars>>]_vars

\* C19 witness: set_fade has been called on a light that was already in
\* dirty_lights and that waits in dirty_schedule.
C19_Witness ==
    \E light \in Lights :
        /\ pendingFades[light] > 0
        /\ light \in Scheduled
        /\ last_brightness[light] = None
        /\ Cardinality({k \in 1..Len(dirty_lights) : dirty_lights[k] = light}) >= 2

\* C16: after every sequence of start() and stop() calls a tick loop that is
\* alive is the one update_task refers to, the one stop() cancels: stopped
\* means no live loop, running means one.
C16_LifecycleStateMachine ==
    \A t \in TaskIds : Alive(t) => update_task = t

\* C17: the done-callback of a loop cancelled by stop() returns without an
\* exception, wherever the loop was suspended; the done-callback of a loop
\* ended by an exception of update_callback raises that exception.
C17_CancellationNotAnError ==
    \A t \in TaskIds :
        tasks[t].done # "not called"
            => /\ tasks[t].st = "cancelled" => tasks[t].done = "returned"
               /\ tasks[t].st = "failed"
                     => tasks[t].done = tasks[t].exc /\ tasks[t].done \in SinkErrors

\* C17 witness: one loop was cancelled in a dispatch and its done-callback has
\* returned, another ended with the sink's exception and its done-callback has
\* raised it.
C17_Witness ==
    \E t, u \in TaskIds :
        /\ tasks[t].st = "cancelled" /\ tasks[t].at = "sink" /\ tasks[t].done = "returned"
        /\ tasks[u].st = "failed" /\ tasks[u].done = tasks[u].exc

\* C20: advance of a shot that is enabled or forced moves the profile state
\* from s to s + 1 when s + 1 is a state, to 0 when s is the last state and
\* the profile loops, and leaves state and running show alone when s is the
\* last state and the profile does not loop; advance of a disabled shot
\* without force changes neither.  The state stays within 0 .. len(states) - 1.
C20_ShotAdvance ==
    /\ [](shot_state \in 0..Len(profile.states) - 1)
    /\ [][\A force \in BOOLEAN :
             Advance(force)
                 => IF enabled \/ force
                    THEN IF shot_state + 1 < Len(profile.states)
                         THEN shot_state' = shot_state + 1
                         ELSE IF profile.loop
                         THEN shot_state' = 0
                         ELSE shot_state' = shot_state /\ running_show' = running_show
                    ELSE shot_state' = shot_state /\ running_show' = running_show]_vars

\* C20 witness: a forced advance of a disabled shot has wrapped a looping
\* profile of three states from its last state to state 0.
C20_Witness ==
    /\ lastAdvance = "wrap"
    /\ ~enabled
    /\ Len(profile.states) = 3
    /\ shot_state = 0

\* C21: when update_callback raises, the list it was called with is not sent
\* again and the loop ends; an ended loop makes no call of update_callback and
\* changes neither list, whatever set_fade marks, until start() is called again.
C21_SinkFailureEndsLoop ==
    [][/\ SinkFails => Ended' /\ sent' = sent /\ dirty_lights' = dirty_lights
                                /\ dirty_schedule' = dirty_schedule
       /\ Ended => \/ StartAgain
                   \/ /\ Ended'
                      /\ sent' = sent
                      /\ update_task' = update_task
                      /\ dirty_schedule' = dirty_schedule
                      /\ \/ dirty_lights' = dirty_lights
                         \/ \E light \in Lights : dirty_lights' = Append(dirty_lights, light)]_vars
\* The loop has ended on a failed dispatch and a channel was marked after that.
C21_Witness ==
    /\ Ended
    /\ sent # <<>>
    /\ \E light \in Lights :
          pendingFades[light] > 0 /\ tickFades[light] = 0 /\ light \notin markedInTick

\* The loop sleeps with nothing left to do: unless set_fade is called again,
\* no later tick sends anything.
Quiescent == pc = "sleep" /\ dirty_lights = <<>> /\ dirty_schedule = <<>>

\* C22: once the set_fade calls have stopped and the running loop has nothing
\* left to do, the last entry the write sink received for a channel that was
\* given a callback carries the terminal brightness of its latest callback,
\* also when that callback was set during a dispatch.
C22_ConvergenceToLatestRequest ==
    Quiescent => \A light \in Lights :
                    callback[light] # NoCallback => lastSent[light] = callback[light].b

\* C23: dirty_schedule holds at most one entry for a channel, and none for a
\* channel whose current fade has reported completion.
C23_SingleRescheduleEntry ==
    /\ \A a, b \in 1..Len(dirty_schedule) :
          a # b => dirty_schedule[a][2] # dirty_schedule[b][2]
    /\ \A k \in 1..Len(dirty_schedule) : last_brightness[dirty_schedule[k][2]] = None

\* C24: a switch is in active_delays only while its release timer is pending.
C24_DelayBookkeeping == active_delays \subseteq delays
====
